---------------------------- MODULE Spec2Model ----------------------------
(***************************************************************************)
(* Client-side realtime connection and authentication-session core of the  *)
(* user-manual frontend:                                                   *)
(*   - the WebSocket connection manager   (hooks/useWebsocket, part_010)   *)
(*   - the HTTP gateway interceptor       (services/api.service.js)        *)
(*   - the Keycloak session manager       (hooks/useKeycloak, part_011)    *)
(* Each subsystem has its own next-state relation and specification; the   *)
(* variables of the other subsystems stay unchanged under it.              *)
(***************************************************************************)
EXTENDS Integers, Sequences, FiniteSets, TLC

(***************************************************************************)
(* Bounds of the model.                                                    *)
(***************************************************************************)
\* config.maxReconnectAttempts (an option of the hook; value chosen for the model)
MaxReconnectAttempts == 2
\* how many messages the consumers pass to sendMessage in one behaviour
MaxMsgs == 2
\* how many transports that can still deliver an event may exist at once
MaxSockets == 2
\* how many HTTP requests the callers issue in one behaviour
MaxReqs == 2
\* how many identity-provider handshakes may be started in one behaviour
MaxInits == 2
\* how many initKeycloak() calls are made in one behaviour
MaxCalls == 2
\* how many further calls and handshakes the behaviours of SpecInit may hold
MaxRestarts == 1
\* how many scheduled token updates may await the provider at once
MaxTokenUpdates == 2
\* how many superseded refresh timers may be pending at once
MaxOrphanTimers == 1
\* how many updateToken() calls of consumers may await the provider at once
MaxManualUpdates == 1
\* how many handlers one event type may have registered
MaxListeners == 2
\* how many authentication messages the wire history may hold
MaxAuthMessages == 2
\* how many timeouts armed by reconnect() may be pending at once
MaxReconnectCalls == 2

\* config.enableAuth as the WebSocketProvider sets it
EnableAuth == TRUE
\* config.enableReconnect as the WebSocketProvider sets it
EnableReconnect == TRUE

VARIABLES
  \* ---- connection manager (useWebSocket) ----
  cur,                \* the transport socketRef.current holds (NoSock: null)
  stale,              \* the transports socketRef no longer holds and that have not
                      \* delivered their close event yet: how many in each state
  isConnectingRef,    \* isConnectingRef.current
  connecting,         \* React state `connecting`
  connected,          \* React state `connected`
  wsError,            \* React state `error`
  reconnectTimer,     \* a reconnect timeout is pending
  reconnectAttempts,  \* reconnectAttemptsRef.current
  messageQueue,       \* messageQueueRef.current
  wire,               \* every message handed to a transport's send(), in order
  nMsg,               \* messages passed to sendMessage so far
  authenticated,      \* `authenticated` as useKeycloak() reports it to the hook
  autoTimer,          \* the auto-connect effect's 100 ms timeout is pending
  autoConnSeen,       \* `connecting` as captured by the closure that timeout calls
  authMethod,         \* config.authMethod: "url" or "message"
  \* history of the connection manager, read by the properties only
  lastOp,             \* the handler that ran last
  lastSent,           \* the messages that handler handed to a transport, in order
  discarded,          \* messages dropped from the queue by disconnect()
  timerCause,         \* why the pending reconnect timeout was armed
  timerConnects,      \* transports created by the reconnect timer in a pure run
  pureRun,            \* so far: one first connect, then only unclean closures and timer reconnects
  resetFrom           \* the value of the counter the last step, an open, found

wsVars == <<cur, stale, isConnectingRef, connecting, connected, wsError,
            reconnectTimer, reconnectAttempts, messageQueue, wire, nMsg,
            authenticated, autoTimer, autoConnSeen, authMethod, lastOp, lastSent,
            discarded, timerCause, timerConnects, pureRun, resetFrom>>

VARIABLES
  \* ---- gateway interceptor (api.service.js) ----
  isRefreshingToken,  \* the module-level flag
  tokenGetter,        \* what setTokenGetter installed: "none", "noUpdate" or "full"
  token,              \* the credential getTokenFunction() returns: 0 none, else its version
  reqPc,              \* where each request is
  reqNoToken,         \* config.noToken of the request
  reqRetry,           \* originalRequest._retry
  reqHdr,             \* the Authorization header the request carries
  reqToast,           \* config.showErrorToast of the request
  \* history of the interceptor, read by the properties only
  reqBusy,            \* the request's 401 arrived while a refresh was in flight
  reqSends,           \* how many times the request was handed to the network
  refreshCalls,       \* updateTokenFunction calls started
  refreshSettled,     \* updateTokenFunction calls that resolved or rejected
  logoutCalls,        \* logoutFunction calls
  apiLastOp,          \* what the last step of the interceptor was
  lastReq,            \* the request it was about, 0 if none
  lastStatus,         \* the status of the response it handled, -1 if none
  toasted             \* how many error toasts it showed

apiVars == <<isRefreshingToken, tokenGetter, token, reqPc, reqNoToken, reqRetry, reqHdr,
             reqToast, reqBusy, reqSends, refreshCalls, refreshSettled, logoutCalls,
             apiLastOp, lastReq, lastStatus, toasted>>

VARIABLES
  \* ---- session store: the module-level state of the useKeycloak hook ----
  keycloakSingleton,      \* 0: null, else the id of the Keycloak instance
  keycloakInitPromise,    \* 0: null, else the id of the handshake the promise belongs to
  initializationState,    \* "idle", "initializing", "initialized", "failed"
  globalError,            \* TRUE when globalError holds an error
  stateSubscribers,       \* TRUE when the hook's handleStateChange is in the set
  \* ---- the provider's hook instance ----
  keycloak,               \* the keycloak state: 0 null, else the instance id
  kcAuthenticated,        \* the authenticated state
  loading,                \* the loading state
  error,                  \* the error state: "none", "init", "user", "refresh", "logout"
  isMountedRef,           \* isMountedRef.current
  updateTokenTimeoutRef,  \* TRUE when the timeout the ref holds is pending
  orphanTimers,           \* pending refresh timeouts the ref no longer holds
  effectPending,          \* the mount effect has to run: first mount, or initKeycloak changed
  mounted,                \* "no" before the first effects ran, then "yes", "gone" after unmount
  \* ---- the identity provider and the asynchronous work in flight ----
  handshake,              \* per instance id: "none", "pending", "resolved", "rejected"
  instAuthenticated,      \* per instance: what keycloakInstance.init() resolved to
  instRoles,              \* per instance: realm and client roles of the token
  calls,                  \* per initKeycloak() call: where it is and what it resolved to
  tokenUpdates,           \* scheduled updateToken runs awaiting keycloakInstance.updateToken(30)
  signOuts,               \* logout() runs awaiting keycloak.logout()
  manualUpdates,          \* updateToken() calls awaiting keycloak.updateToken(minValidity)
  \* history of the session, read by the properties only
  kcLastOp,               \* the operation that ran last
  notices,                \* the notification types notifyStateChange sent during the last step
  effects,                \* what else the last step did: "setToken", "tokenRequest"
  called,                 \* how many times the last step called the hook's subscriber
  trail,                  \* the values the last step assigned to initializationState, in order
  returned,               \* what the call that ended in the last step gave its caller
  timerAtLogout,          \* the refresh timeout was pending when logout() last started
  loggedOut               \* logout() has run and no handshake has resolved since

kcVars == <<keycloakSingleton, keycloakInitPromise, initializationState, globalError,
            stateSubscribers, keycloak, kcAuthenticated, loading, error, isMountedRef,
            updateTokenTimeoutRef, orphanTimers, effectPending, mounted, handshake,
            instAuthenticated, instRoles, calls, tokenUpdates, signOuts, kcLastOp, notices,
            manualUpdates, effects, returned, called, trail,
            timerAtLogout, loggedOut>>

VARIABLES
  \* ---- inbound messages of the connection manager (useWebSocket) ----
  eventListeners,   \* eventListenersRef: a map from the event types that have an entry
                    \* to their handlers in push order
  regOp,            \* the registry call of the last step and its event type
  \* history of the last step, read by the properties only
  rxType,           \* the type of the message onmessage handled, "none" otherwise
  invoked,          \* the handlers it called, in call order
  ponged            \* it handed a pong to the transport socketRef holds

msgVars == <<eventListeners, regOp, rxType, invoked, ponged>>

VARIABLES
  \* ---- life of the connection manager's consumer (useWebSocket) ----
  connectTimers,    \* the pending timeouts of reconnect(): how many for each pair of
                    \* `authenticated` and `connecting` their connect closure captured
  wsUnmounted,      \* the component that uses the hook has been unmounted
  unregistered      \* the event type and handler of every function returned by
                    \* addEventListener that has been called

lifeVars == <<connectTimers, wsUnmounted, unregistered>>

vars == <<wsVars, apiVars, kcVars, msgVars, lifeVars>>

\* the connection manager leaves the interceptor and the session alone
OthersFrame == UNCHANGED <<apiVars, kcVars, msgVars>>

\* a handler of the connection manager other than reconnect() and the unmount
WsFrame == OthersFrame /\ UNCHANGED lifeVars

Range(f) == {f[i] : i \in DOMAIN f}

(***************************************************************************)
(* Transports. A transport has no identity beyond its own state and        *)
(* whether socketRef holds it: rs is readyState, est says the connection   *)
(* was established, ucl that close() was called on it, pend = "close" that *)
(* its error event has been delivered and its close event follows in the   *)
(* same task. A transport that has delivered its close event gets no       *)
(* further event; it stays only as long as socketRef holds it.             *)
(***************************************************************************)
Sock(rs, est, ucl, pend) == [rs |-> rs, est |-> est, ucl |-> ucl, pend |-> pend]
NoSock == Sock("NONE", FALSE, FALSE, "none")
DeadSock == Sock("CLOSED", FALSE, FALSE, "none")
ConnectingSock == Sock("CONNECTING", FALSE, FALSE, "none")

StaleKinds ==
  { ConnectingSock,
    Sock("OPEN", TRUE, FALSE, "none"),
    Sock("CLOSING", TRUE, TRUE, "none"),
    Sock("CLOSING", FALSE, TRUE, "none"),
    Sock("CLOSED", FALSE, FALSE, "close"),
    Sock("CLOSED", FALSE, TRUE, "close") }

\* the transport can still deliver an event
Pending(sk) == sk.rs \in {"CONNECTING", "OPEN", "CLOSING"} \/ sk.pend = "close"

(***************************************************************************)
(* The connection manager's mutable state as one record, so that a handler *)
(* that calls another (sendMessage -> connect, the effect cleanup ->       *)
(* disconnect) composes the callee's whole effect.                         *)
(***************************************************************************)
WsState ==
  [cur |-> cur, stale |-> stale,
   isConnectingRef |-> isConnectingRef, connecting |-> connecting,
   connected |-> connected, wsError |-> wsError, reconnectTimer |-> reconnectTimer,
   reconnectAttempts |-> reconnectAttempts, messageQueue |-> messageQueue,
   wire |-> wire]

Commit(st) ==
  /\ cur' = st.cur
  /\ stale' = st.stale
  /\ isConnectingRef' = st.isConnectingRef
  /\ connecting' = st.connecting
  /\ connected' = st.connected
  /\ wsError' = st.wsError
  /\ reconnectTimer' = st.reconnectTimer
  /\ reconnectAttempts' = st.reconnectAttempts
  /\ messageQueue' = st.messageQueue
  /\ wire' = st.wire

\* socketRef stops holding its transport: it lives on, unreferenced, if it can still
\* deliver an event
Release(st) ==
  IF Pending(st.cur)
  THEN [st EXCEPT !.stale[st.cur] = @ + 1, !.cur = NoSock]
  ELSE [st EXCEPT !.cur = NoSock]

\* how many transports exist that can still deliver an event
RECURSIVE SumOver(_, _)
SumOver(f, S) ==
  IF S = {} THEN 0
  ELSE LET x == CHOOSE x \in S : TRUE IN f[x] + SumOver(f, S \ {x})

NumStale(st) == SumOver(st.stale, StaleKinds)

\* a transport in state k exists: the one socketRef holds (isCur) or a stale one
Has(st, isCur, k) ==
  IF isCur THEN st.cur = k /\ Pending(k) ELSE k \in StaleKinds /\ st.stale[k] > 0

\* that transport moves to state new
Put(st, isCur, k, new) ==
  IF isCur THEN [st EXCEPT !.cur = new]
  ELSE IF Pending(new)
       THEN [st EXCEPT !.stale = [[@ EXCEPT ![k] = @ - 1] EXCEPT ![new] = @ + 1]]
       ELSE [st EXCEPT !.stale[k] = @ - 1]

\* a transport is between its error event and its close event (one browser task)
MidDispatch ==
  \/ cur.pend = "close"
  \/ \E k \in StaleKinds : k.pend = "close" /\ stale[k] > 0

\* socketRef.current?.readyState === WebSocket.OPEN
RefOpen(st) == st.cur.rs = "OPEN"

\* the early return of connect(): already open or connecting
connectSkips(st, connSeen) == RefOpen(st) \/ st.isConnectingRef \/ connSeen

CreatesIgnoringAuth(st, auth, connSeen) == ~connectSkips(st, connSeen)

\* connect() gets as far as new WebSocket(...)
Creates(st, auth, connSeen) ==
  /\ ~connectSkips(st, connSeen)
  /\ ~(EnableAuth /\ ~auth)

\* connect(), called from a closure that captured `authenticated` = auth and
\* `connecting` = connSeen
connect(st, auth, connSeen) ==
  IF ~Creates(st, auth, connSeen) THEN st
  ELSE [Release(st) EXCEPT !.isConnectingRef = TRUE,
                           !.connecting = TRUE,
                           !.wsError = "none",
                           !.cur = ConnectingSock]

\* connect() would make one transport more than the model holds
NoRoom(st, auth, connSeen) ==
  Creates(st, auth, connSeen) /\ NumStale(Release(st)) + 1 > MaxSockets

\* WebSocket.close(1000, ...): nothing on a closing or closed transport
closeSock(sk) ==
  IF sk.rs \in {"CONNECTING", "OPEN"}
  THEN [sk EXCEPT !.rs = "CLOSING", !.ucl = TRUE]
  ELSE sk

disconnectKeepsTimer(st) ==
  [Release([st EXCEPT !.cur = closeSock(@)])
     EXCEPT !.connected = FALSE,
            !.connecting = FALSE,
            !.isConnectingRef = FALSE,
            !.reconnectAttempts = 0,
            !.messageQueue = <<>>]

disconnect(st) ==
  [Release([st EXCEPT !.cur = closeSock(@)])
     EXCEPT !.reconnectTimer = FALSE,
            !.connected = FALSE,
            !.connecting = FALSE,
            !.isConnectingRef = FALSE,
            !.reconnectAttempts = 0,
            !.messageQueue = <<>>]

flushQueueNewestFirst(q) == [i \in 1..Len(q) |-> q[Len(q) + 1 - i]]

\* the while loop of onopen: shift() each queued message and send it, oldest first
flushQueue(q) == q

\* the authentication message as it stands on the wire
AuthMessage == 0

\* "if (config.enableAuth && authenticated && config.authMethod === 'message')" and
\* "if (token)": what onopen sends for authentication
authMessages(method, hasToken) ==
  IF EnableAuth /\ method = "message" /\ hasToken THEN <<AuthMessage>> ELSE <<>>

\* newSocket.onopen of a transport in state k; every transport is created by a
\* connect() whose closure saw authenticated (or EnableAuth is off); hasToken: what
\* getToken() returns is not null
onopen(st, isCur, k, method, hasToken) ==
  [Put(st, isCur, k, Sock("OPEN", TRUE, FALSE, "none"))
     EXCEPT !.connected = TRUE,
            !.connecting = FALSE,
            !.isConnectingRef = FALSE,
            !.wsError = "none",
            !.reconnectAttempts = 0,
            !.messageQueue = <<>>,
            !.wire = @ \o flushQueue(st.messageQueue) \o authMessages(method, hasToken)]

\* newSocket.onerror; the browser has set readyState to CLOSED and fires close next
onerror(st, isCur, k) ==
  [Put(st, isCur, k, Sock("CLOSED", FALSE, k.ucl, "close"))
     EXCEPT !.wsError = "connection error",
            !.connecting = FALSE,
            !.isConnectingRef = FALSE]

mayReconnectOffByOne(st, wasClean) ==
  EnableReconnect /\ st.reconnectAttempts <= MaxReconnectAttempts /\ ~wasClean

mayReconnectGivesUpEarly(st, wasClean) ==
  EnableReconnect /\ st.reconnectAttempts + 1 < MaxReconnectAttempts /\ ~wasClean

\* the condition of onclose under which a reconnect is scheduled
mayReconnect(st, wasClean) ==
  EnableReconnect /\ st.reconnectAttempts < MaxReconnectAttempts /\ ~wasClean

\* newSocket.onclose
onclose(st, isCur, k, wasClean) ==
  LET base == [Put(st, isCur, k, DeadSock)
                 EXCEPT !.connected = FALSE,
                        !.connecting = FALSE,
                        !.isConnectingRef = FALSE,
                        !.reconnectTimer = FALSE]
  IN IF mayReconnect(st, wasClean)
     THEN [base EXCEPT !.reconnectAttempts = @ + 1, !.reconnectTimer = TRUE]
     ELSE IF st.reconnectAttempts >= MaxReconnectAttempts
          THEN [base EXCEPT !.wsError = "exhausted"]
          ELSE base

\* sendMessage(message) from the latest render: `connecting`, `connected` and the
\* connect closure are the committed ones
sendMessage(st, m, auth) ==
  IF RefOpen(st)
  THEN [st EXCEPT !.wire = Append(@, m)]
  ELSE LET queued == [st EXCEPT !.messageQueue = Append(@, m)]
       IN IF ~st.connecting /\ ~st.connected
          THEN connect(queued, auth, st.connecting)
          ELSE queued

(***************************************************************************)
(* Actions of the connection manager.                                      *)
(***************************************************************************)
\* nothing has happened on this Connection yet
Fresh ==
  /\ cur = NoSock
  /\ NumStale(WsState) = 0
  /\ reconnectAttempts = 0
  /\ ~reconnectTimer
  /\ timerConnects = 0

\* the history variables after a step that is not a reconnect by the timer:
\* creates = the step made a transport, resets = the step reset the attempt counter
History(creates, resets, stays) ==
  /\ pureRun' = (pureRun /\ stays /\ (creates => Fresh) /\ (resets => Fresh))
  /\ timerConnects' = IF pureRun' THEN timerConnects ELSE 0

\* a step other than onclose leaves the cause of a timeout that stays pending
KeepCause == timerCause' = IF reconnectTimer' THEN timerCause ELSE "none"

\* the handler that ran and what it handed to a transport: what `wire` gained
Ran(op) ==
  /\ lastOp' = op
  /\ resetFrom' = IF op \in {"onopen", "onopenNoToken"} THEN reconnectAttempts ELSE 0
  /\ lastSent' = SubSeq(wire', Len(wire) + 1, Len(wire'))

\* a consumer calls connect() of the latest render
Connect ==
  /\ WsFrame
  /\ ~MidDispatch
  /\ ~wsUnmounted
  /\ ~NoRoom(WsState, authenticated, connecting)
  /\ Commit(connect(WsState, authenticated, connecting))
  /\ History(Creates(WsState, authenticated, connecting), FALSE, TRUE)
  /\ KeepCause
  /\ Ran("connect")
  /\ UNCHANGED <<nMsg, authenticated, autoTimer, autoConnSeen, discarded, authMethod>>

\* a consumer calls disconnect()
Disconnect ==
  /\ WsFrame
  /\ ~MidDispatch
  /\ ~wsUnmounted
  /\ Commit(disconnect(WsState))
  /\ discarded' = discarded \cup (Range(messageQueue) \ Range(disconnect(WsState).messageQueue))
  /\ History(FALSE, TRUE, TRUE)
  /\ KeepCause
  /\ Ran("disconnect")
  /\ UNCHANGED <<nMsg, authenticated, autoTimer, autoConnSeen, authMethod>>

\* a consumer calls sendMessage(message)
SendMessage ==
  /\ WsFrame
  /\ ~MidDispatch
  /\ ~wsUnmounted
  /\ nMsg < MaxMsgs
  /\ LET m == nMsg + 1
         connects == ~RefOpen(WsState) /\ ~connecting /\ ~connected
     IN /\ connects => ~NoRoom(WsState, authenticated, connecting)
        /\ Commit(sendMessage(WsState, m, authenticated))
        /\ nMsg' = m
        /\ History(connects /\ Creates(WsState, authenticated, connecting), FALSE, TRUE)
  /\ KeepCause
  /\ Ran("sendMessage")
  /\ UNCHANGED <<authenticated, autoTimer, autoConnSeen, discarded, authMethod>>

\* the transport opens: the browser sets readyState to OPEN and fires open
OnOpen(isCur, k, hasToken) ==
  /\ WsFrame
  /\ ~MidDispatch
  /\ Has(WsState, isCur, k)
  /\ k.rs = "CONNECTING"
  /\ authMessages(authMethod, hasToken) # <<>> =>
       Cardinality({i \in DOMAIN wire : wire[i] = AuthMessage}) < MaxAuthMessages
  /\ Commit(onopen(WsState, isCur, k, authMethod, hasToken))
  /\ History(FALSE, FALSE, FALSE)
  /\ KeepCause
  /\ Ran(IF authMethod = "message" /\ ~hasToken THEN "onopenNoToken" ELSE "onopen")
  /\ UNCHANGED <<nMsg, authenticated, autoTimer, autoConnSeen, discarded, authMethod>>

\* the transport fails: the browser sets readyState to CLOSED and fires error
OnError(isCur, k) ==
  /\ WsFrame
  /\ ~MidDispatch
  /\ Has(WsState, isCur, k)
  /\ k.rs \in {"CONNECTING", "OPEN", "CLOSING"}
  /\ Commit(onerror(WsState, isCur, k))
  /\ KeepCause
  /\ Ran("onerror")
  /\ UNCHANGED <<nMsg, authenticated, autoTimer, autoConnSeen, discarded, authMethod,
                 timerConnects, pureRun>>

\* the close event. After an error event it follows in the same task and is unclean;
\* a transport that was never established cannot close cleanly.
OnClose(isCur, k, wasClean) ==
  /\ WsFrame
  /\ Has(WsState, isCur, k)
  /\ \/ k.pend = "close" /\ ~wasClean
     \/ /\ ~MidDispatch
        /\ k.rs \in {"CONNECTING", "OPEN", "CLOSING"}
        /\ wasClean => k.est
  /\ Commit(onclose(WsState, isCur, k, wasClean))
  /\ History(FALSE, FALSE, ~wasClean)
  /\ Ran("onclose")
  /\ timerCause' = IF ~reconnectTimer' THEN "none"
                   ELSE IF k.ucl THEN "userClose" ELSE "drop"
  /\ UNCHANGED <<nMsg, authenticated, autoTimer, autoConnSeen, discarded, authMethod>>

\* the reconnect timeout fires: connect() of the closure that created the closed
\* transport, which saw `connecting` false and passed the authentication check
ReconnectTimerFire ==
  /\ WsFrame
  /\ ~MidDispatch
  /\ reconnectTimer
  /\ ~NoRoom(WsState, TRUE, FALSE)
  /\ Commit(connect([WsState EXCEPT !.reconnectTimer = FALSE], TRUE, FALSE))
  /\ timerConnects' = IF pureRun /\ Creates(WsState, TRUE, FALSE)
                      THEN timerConnects + 1 ELSE timerConnects
  /\ KeepCause
  /\ Ran("reconnectTimer")
  /\ UNCHANGED <<nMsg, authenticated, autoTimer, autoConnSeen, discarded, authMethod,
                 pureRun>>

\* `authenticated` changes: the auto-connect effect's cleanup runs (clearTimeout,
\* disconnect()), then the effect arms its 100 ms timeout when authenticated
AuthEffect ==
  /\ WsFrame
  /\ ~MidDispatch
  /\ ~wsUnmounted
  /\ authenticated' = ~authenticated
  /\ Commit(disconnect(WsState))
  /\ autoTimer' = authenticated'
  /\ autoConnSeen' = (authenticated' /\ connecting)
  /\ discarded' = discarded \cup (Range(messageQueue) \ Range(disconnect(WsState).messageQueue))
  /\ History(FALSE, TRUE, TRUE)
  /\ KeepCause
  /\ Ran("authEffect")
  /\ UNCHANGED <<nMsg, authMethod>>

\* the auto-connect timeout fires: connect() of the render the effect ran in
AutoTimerFire ==
  /\ WsFrame
  /\ ~MidDispatch
  /\ autoTimer
  /\ ~NoRoom(WsState, TRUE, autoConnSeen)
  /\ Commit(connect(WsState, TRUE, autoConnSeen))
  /\ autoTimer' = FALSE
  /\ autoConnSeen' = FALSE
  /\ History(Creates(WsState, TRUE, autoConnSeen), FALSE, TRUE)
  /\ KeepCause
  /\ Ran("autoTimer")
  /\ UNCHANGED <<nMsg, authenticated, discarded, authMethod>>

\* the values of `authenticated` and `connecting` a connect closure can hold
Closures == BOOLEAN \X BOOLEAN

\* how many timeouts of reconnect() are pending
NumConnectTimers == SumOver(connectTimers, Closures)

\* a consumer calls reconnect() of the latest render: disconnect(), then
\* setTimeout(connect, 100) with the connect of that render
Reconnect ==
  /\ OthersFrame
  /\ ~MidDispatch
  /\ ~wsUnmounted
  /\ NumConnectTimers < MaxReconnectCalls
  /\ Commit(disconnect(WsState))
  /\ connectTimers' = [connectTimers EXCEPT ![<<authenticated, connecting>>] = @ + 1]
  /\ discarded' = discarded \cup (Range(messageQueue) \ Range(disconnect(WsState).messageQueue))
  /\ History(FALSE, TRUE, TRUE)
  /\ KeepCause
  /\ Ran("reconnect")
  /\ UNCHANGED <<nMsg, authenticated, autoTimer, autoConnSeen, authMethod, wsUnmounted,
                 unregistered>>

\* a timeout of reconnect() fires: connect() of the render reconnect() was called in
ReconnectCallFire(c) ==
  /\ OthersFrame
  /\ ~MidDispatch
  /\ connectTimers[c] > 0
  /\ ~NoRoom(WsState, c[1], c[2])
  /\ Commit(connect(WsState, c[1], c[2]))
  /\ connectTimers' = [connectTimers EXCEPT ![c] = @ - 1]
  /\ History(Creates(WsState, c[1], c[2]), FALSE, TRUE)
  /\ KeepCause
  /\ Ran("reconnectCall")
  /\ UNCHANGED <<nMsg, authenticated, autoTimer, autoConnSeen, discarded, authMethod,
                 wsUnmounted, unregistered>>

\* the component unmounts: the cleanup of the auto-connect effect (clearTimeout,
\* disconnect()), then the cleanup effect, which finds the timer and the handle cleared
WsUnmount ==
  /\ OthersFrame
  /\ ~MidDispatch
  /\ ~wsUnmounted
  /\ Commit(disconnect(WsState))
  /\ autoTimer' = FALSE
  /\ autoConnSeen' = FALSE
  /\ wsUnmounted' = TRUE
  /\ discarded' = discarded \cup (Range(messageQueue) \ Range(disconnect(WsState).messageQueue))
  /\ History(FALSE, TRUE, TRUE)
  /\ KeepCause
  /\ Ran("unmount")
  /\ UNCHANGED <<nMsg, authenticated, authMethod, connectTimers, unregistered>>

(***************************************************************************)
(* Inbound messages. A message is reduced to the type JSON.parse finds in  *)
(* it: the heartbeat type or another one; a handler is reduced to its      *)
(* identity and to whether it throws on the message at hand.               *)
(***************************************************************************)
EventTypes == {"ping", "update"}
Handlers == {"h1", "h2"}
NoHandler == "none"

MsgFrame == UNCHANGED <<wsVars, apiVars, kcVars, lifeVars>>

\* listeners.indexOf(listener), 0 when absent
indexOf(listeners, h) ==
  IF h \in Range(listeners)
  THEN CHOOSE i \in 1..Len(listeners) :
         listeners[i] = h /\ \A j \in 1..(i - 1) : listeners[j] # h
  ELSE 0

\* listeners.splice(index, 1)
splice(listeners, index) ==
  SubSeq(listeners, 1, index - 1) \o SubSeq(listeners, index + 1, Len(listeners))

\* listeners.forEach((handler) => handler(parsed)): the handlers called when the
\* handler `thrower` throws on this message; its exception ends the loop
forEach(listeners, thrower) ==
  IF indexOf(listeners, thrower) = 0 THEN listeners
  ELSE SubSeq(listeners, 1, indexOf(listeners, thrower))

\* the pong goes through send(), which writes only to an open socketRef.current
pongSent(type) == type = "ping" /\ RefOpen(WsState)

\* Map.prototype.set and Map.prototype.delete
mapSet(m, key, v) == [x \in DOMAIN m \cup {key} |-> IF x = key THEN v ELSE m[x]]
mapDelete(m, key) == [x \in DOMAIN m \ {key} |-> m[x]]

\* the handlers onmessage iterates: "if (listeners && listeners.length > 0)"
listenersOf(m, type) == IF type \in DOMAIN m THEN m[type] ELSE <<>>

\* addEventListener(eventType, listener): the entry is created on first use
addEventListener(m, type, h) ==
  LET made == IF type \in DOMAIN m THEN m ELSE mapSet(m, type, <<>>)
  IN mapSet(made, type, Append(made[type], h))

removeEventListenerKeepsEntry(m, type, h) ==
  IF type \notin DOMAIN m THEN m
  ELSE IF indexOf(m[type], h) > 0 THEN mapSet(m, type, splice(m[type], indexOf(m[type], h)))
       ELSE m

\* removeEventListener(eventType, listener), and the function addEventListener returns
removeEventListener(m, type, h) ==
  IF type \notin DOMAIN m THEN m
  ELSE LET spliced == IF indexOf(m[type], h) > 0
                      THEN mapSet(m, type, splice(m[type], indexOf(m[type], h)))
                      ELSE m
       IN IF Len(spliced[type]) = 0 THEN mapDelete(spliced, type) ELSE spliced

\* a consumer registers a handler
AddEventListener(type, h) ==
  /\ Len(listenersOf(eventListeners, type)) < MaxListeners
  /\ eventListeners' = addEventListener(eventListeners, type, h)
  /\ regOp' = <<"add", type>>
  /\ rxType' = "none"
  /\ invoked' = <<>>
  /\ ponged' = FALSE
  /\ MsgFrame

\* a consumer calls removeEventListener, or the function addEventListener returned
RemoveEventListener(type, h) ==
  /\ eventListeners' = removeEventListener(eventListeners, type, h)
  /\ regOp' = <<IF h \in Range(listenersOf(eventListeners, type)) THEN "removed" ELSE "remove",
                type>>
  /\ rxType' = "none"
  /\ invoked' = <<>>
  /\ ponged' = FALSE
  /\ MsgFrame

\* a consumer calls, for the first time, the function addEventListener returned for
\* a registration that is still in the list
Unregister(type, h) ==
  /\ h \in Range(listenersOf(eventListeners, type))
  /\ <<type, h>> \notin unregistered
  /\ eventListeners' = removeEventListener(eventListeners, type, h)
  /\ unregistered' = unregistered \cup {<<type, h>>}
  /\ regOp' = <<"unregister", type>>
  /\ rxType' = "none"
  /\ invoked' = <<>>
  /\ ponged' = FALSE
  /\ UNCHANGED <<wsVars, apiVars, kcVars, connectTimers, wsUnmounted>>

\* a consumer calls such a function once more: the same closure runs again
UnregisterAgain(type, h) ==
  /\ <<type, h>> \in unregistered
  /\ eventListeners' = removeEventListener(eventListeners, type, h)
  /\ regOp' = <<"unregisterAgain", type>>
  /\ rxType' = "none"
  /\ invoked' = <<>>
  /\ ponged' = FALSE
  /\ UNCHANGED <<wsVars, apiVars, kcVars, lifeVars>>

\* a message of the given type arrives on an open transport; thrower is the handler
\* that throws on it, if any
OnMessage(isCur, k, type, thrower) ==
  /\ ~MidDispatch
  /\ Has(WsState, isCur, k)
  /\ k.rs = "OPEN"
  /\ rxType' = type
  /\ ponged' = pongSent(type)
  /\ invoked' = forEach(listenersOf(eventListeners, type), thrower)
  /\ regOp' = <<"none", "none">>
  /\ UNCHANGED eventListeners
  /\ MsgFrame

InitLife ==
  /\ connectTimers = [c \in Closures |-> 0]
  /\ wsUnmounted = FALSE
  /\ unregistered = {}

InitMsg ==
  /\ eventListeners = [type \in {} |-> <<>>]
  /\ regOp = <<"none", "none">>
  /\ rxType = "none"
  /\ invoked = <<>>
  /\ ponged = FALSE

InitWsFor(method) ==
  /\ cur = NoSock
  /\ stale = [k \in StaleKinds |-> 0]
  /\ isConnectingRef = FALSE
  /\ connecting = FALSE
  /\ connected = FALSE
  /\ wsError = "none"
  /\ reconnectTimer = FALSE
  /\ reconnectAttempts = 0
  /\ messageQueue = <<>>
  /\ wire = <<>>
  /\ nMsg = 0
  /\ authenticated = FALSE
  /\ autoTimer = FALSE
  /\ autoConnSeen = FALSE
  /\ authMethod = method
  /\ lastOp = "none"
  /\ lastSent = <<>>
  /\ discarded = {}
  /\ timerCause = "none"
  /\ timerConnects = 0
  /\ pureRun = TRUE
  /\ resetFrom = 0

\* the default configuration: authMethod 'url'
InitWs == InitWsFor("url")

SockKinds == StaleKinds \cup {DeadSock}

NextWs ==
  \/ Connect
  \/ Disconnect
  \/ SendMessage
  \/ \E isCur \in BOOLEAN, k \in SockKinds, hasToken \in BOOLEAN : OnOpen(isCur, k, hasToken)
  \/ \E isCur \in BOOLEAN, k \in SockKinds : OnError(isCur, k)
  \/ \E isCur \in BOOLEAN, k \in SockKinds, wasClean \in BOOLEAN : OnClose(isCur, k, wasClean)
  \/ ReconnectTimerFire
  \/ AutoTimerFire
  \/ AuthEffect


(***************************************************************************)
(* The gateway interceptor. A request is "new" until a caller issues it,   *)
(* "inflight" until its response arrives, "refreshing" while its 401       *)
(* handler awaits updateTokenFunction(30), "retrying" while that handler   *)
(* awaits apiClient(originalRequest), then "resolved" or "rejected".       *)
(***************************************************************************)
ReqIds == 1..MaxReqs

\* getTokenFunction / logoutFunction / updateTokenFunction are set
HasGetToken == tokenGetter # "none"
HasLogout == tokenGetter # "none"
HasUpdateToken == tokenGetter = "full"

\* the Authorization header: absent, or `Bearer ${token}`
NoHeader == <<>>
Bearer(tok) == <<"Bearer", tok>>

requestHeaderIgnoringNoToken(noToken, hdr) ==
  IF hdr # NoHeader THEN hdr
  ELSE IF ~HasGetToken THEN NoHeader
  ELSE IF token # 0 THEN Bearer(token) ELSE NoHeader

\* the request interceptor: the Authorization header the request leaves with
requestHeader(noToken, hdr) ==
  IF noToken THEN NoHeader
  ELSE IF hdr # NoHeader THEN hdr
  ELSE IF ~HasGetToken THEN NoHeader
  ELSE IF token # 0 THEN Bearer(token) ELSE NoHeader

handles401IgnoringFlag(status, noToken) == status = 401 /\ ~noToken

\* the condition that opens the 401 branch of the response error handler
handles401(status, noToken) ==
  status = 401 /\ ~noToken /\ ~isRefreshingToken

\* inside the branch, "Token expired: try to refresh" is taken
startsRefresh(r) == ~reqRetry[r] /\ HasUpdateToken

retryHeaderKept(hdr, newToken) == hdr

\* "originalRequest.headers.Authorization = `Bearer ${newToken}`"
retryHeader(hdr, newToken) == Bearer(newToken)

flagWhenDoneStuckOnThrow(op) == op = "refreshFailed"

\* isRefreshingToken when the 401 handler has finished with `op`: set to false before
\* "return result" and in the finally block
flagWhenDone(op) == FALSE

afterLogoutKeepsToast(showErrorToast) == showErrorToast

\* "logoutFunction(); originalRequest.showErrorToast = false", when logoutFunction is set
afterLogout(showErrorToast) == IF HasLogout THEN FALSE ELSE showErrorToast

\* handleApiError: displayToast shows a toast only when config.showErrorToast === true
handleApiError(showErrorToast) == IF showErrorToast THEN 1 ELSE 0

\* the history of one step of the interceptor
Did(op, r, status, toasts) ==
  /\ apiLastOp' = op
  /\ lastReq' = r
  /\ lastStatus' = status
  /\ toasted' = toasts

ApiFrame == UNCHANGED <<tokenGetter, wsVars, kcVars, msgVars, lifeVars>>

\* the session provider's effect installs the three functions; updateToken is
\* optional (it defaults to null); tok is what getToken() returns from then on
setTokenGetter(kind, tok) ==
  /\ tokenGetter = "none"
  /\ tokenGetter' = kind
  /\ token' = tok
  /\ Did("setTokenGetter", 0, -1, 0)
  /\ UNCHANGED <<isRefreshingToken, reqPc, reqNoToken, reqRetry, reqHdr, reqToast, reqBusy,
                 reqSends, refreshCalls, refreshSettled, logoutCalls, wsVars, kcVars,
                 msgVars, lifeVars>>

\* a caller issues the next request
Send(r, noToken, showErrorToast) ==
  /\ reqPc[r] = "new"
  /\ \A q \in ReqIds : q < r => reqPc[q] # "new"
  /\ reqPc' = [reqPc EXCEPT ![r] = "inflight"]
  /\ reqNoToken' = [reqNoToken EXCEPT ![r] = noToken]
  /\ reqToast' = [reqToast EXCEPT ![r] = showErrorToast]
  /\ reqHdr' = [reqHdr EXCEPT ![r] = requestHeader(noToken, NoHeader)]
  /\ reqSends' = [reqSends EXCEPT ![r] = 1]
  /\ Did("send", r, -1, 0)
  /\ UNCHANGED <<isRefreshingToken, token, reqRetry, reqBusy, refreshCalls,
                 refreshSettled, logoutCalls>>
  /\ ApiFrame

\* a 2xx response: the success handler resolves the request
RespondOk(r) ==
  /\ reqPc[r] = "inflight"
  /\ reqPc' = [reqPc EXCEPT ![r] = "resolved"]
  /\ Did("ok", r, -1, 0)
  /\ UNCHANGED <<isRefreshingToken, token, reqNoToken, reqRetry, reqHdr, reqToast, reqBusy,
                 reqSends, refreshCalls, refreshSettled, logoutCalls>>
  /\ ApiFrame

\* an error response (status 0: no response at all): the error handler runs up to
\* its first await, or to its end
RespondError(r, status, isPasswordError) ==
  /\ reqPc[r] = "inflight"
  /\ isPasswordError => status = 401
  /\ reqBusy' = [reqBusy EXCEPT ![r] = (status = 401 /\ ~reqNoToken[r] /\ ~isPasswordError
                                       /\ \E q \in ReqIds : reqPc[q] = "refreshing")]
  /\ IF handles401(status, reqNoToken[r]) /\ ~isPasswordError
     THEN IF startsRefresh(r)
          THEN /\ reqRetry' = [reqRetry EXCEPT ![r] = TRUE]
               /\ isRefreshingToken' = TRUE
               /\ reqPc' = [reqPc EXCEPT ![r] = "refreshing"]
               /\ refreshCalls' = refreshCalls + 1
               /\ Did("refreshStarted", r, status, 0)
               /\ UNCHANGED <<token, logoutCalls, reqToast>>
          ELSE /\ reqPc' = [reqPc EXCEPT ![r] = "rejected"]
               /\ logoutCalls' = IF HasLogout THEN logoutCalls + 1 ELSE logoutCalls
               /\ token' = IF HasLogout THEN 0 ELSE token
               /\ reqToast' = [reqToast EXCEPT ![r] = afterLogout(@)]
               /\ Did("unrefreshable", r, status, handleApiError(reqToast'[r]))
               /\ UNCHANGED <<reqRetry, isRefreshingToken, refreshCalls>>
     ELSE /\ reqPc' = [reqPc EXCEPT ![r] = "rejected"]
          /\ Did("rejected", r, status, handleApiError(reqToast[r]))
          /\ UNCHANGED <<reqRetry, isRefreshingToken, refreshCalls, token, logoutCalls,
                         reqToast>>
  /\ UNCHANGED <<reqNoToken, reqHdr, reqSends, refreshSettled>>
  /\ ApiFrame

\* updateTokenFunction(30) settles: "refreshed" (true, and getTokenFunction() then
\* returns the new credential), "noToken" (true, but getTokenFunction() returns
\* nothing), "notRefreshed" (false) or "threw"
RefreshSettles(r, outcome) ==
  /\ reqPc[r] = "refreshing"
  /\ refreshSettled' = refreshSettled + 1
  /\ IF outcome = "refreshed"
     THEN /\ token' = token + 1
          /\ reqHdr' = [reqHdr EXCEPT ![r] = requestHeader(reqNoToken[r], retryHeader(@, token'))]
          /\ reqPc' = [reqPc EXCEPT ![r] = "retrying"]
          /\ reqSends' = [reqSends EXCEPT ![r] = @ + 1]
          /\ Did("refreshed", r, -1, 0)
          /\ UNCHANGED <<isRefreshingToken, logoutCalls, reqToast>>
     ELSE /\ logoutCalls' = IF HasLogout THEN logoutCalls + 1 ELSE logoutCalls
          /\ token' = IF HasLogout \/ outcome = "noToken" THEN 0 ELSE token
          /\ isRefreshingToken' =
               flagWhenDone(IF outcome = "noToken" THEN "refreshedNoToken" ELSE "refreshFailed")
          /\ reqPc' = [reqPc EXCEPT ![r] = "rejected"]
          /\ reqToast' = [reqToast EXCEPT ![r] = afterLogout(@)]
          /\ Did(IF outcome = "noToken" THEN "refreshedNoToken" ELSE "refreshFailed", r, -1,
                 handleApiError(reqToast'[r]))
          /\ UNCHANGED <<reqHdr, reqSends>>
  /\ UNCHANGED <<reqNoToken, reqRetry, reqBusy, refreshCalls>>
  /\ ApiFrame

\* the retried request gets a 2xx response: result returned, flag cleared
RetryOk(r) ==
  /\ reqPc[r] = "retrying"
  /\ isRefreshingToken' = flagWhenDone("retryOk")
  /\ reqPc' = [reqPc EXCEPT ![r] = "resolved"]
  /\ Did("retryOk", r, -1, 0)
  /\ UNCHANGED <<token, reqNoToken, reqRetry, reqHdr, reqToast, reqBusy, reqSends,
                 refreshCalls, refreshSettled, logoutCalls>>
  /\ ApiFrame

\* the retried request fails: its own run of the error handler (the flag is still
\* set, so the 401 branch is closed to it) classifies and rejects; the rejection
\* lands in the catch of the handler that awaited the retry, which logs out; the
\* finally clears the flag, and handleApiError runs for the original error
RetryError(r, status) ==
  /\ reqPc[r] = "retrying"
  /\ LET inner == IF handles401(status, reqNoToken[r]) /\ HasLogout THEN 1 ELSE 0
         outer == IF HasLogout THEN 1 ELSE 0
     IN /\ logoutCalls' = logoutCalls + inner + outer
        /\ token' = IF inner + outer > 0 THEN 0 ELSE token
  /\ isRefreshingToken' = flagWhenDone("retryFailed")
  /\ reqPc' = [reqPc EXCEPT ![r] = "rejected"]
  /\ reqToast' = [reqToast EXCEPT ![r] = afterLogout(@)]
  /\ Did("retryFailed", r, status, handleApiError(reqToast[r]) + handleApiError(reqToast'[r]))
  /\ UNCHANGED <<reqNoToken, reqRetry, reqHdr, reqBusy, reqSends, refreshCalls,
                 refreshSettled>>
  /\ ApiFrame

InitApi ==
  /\ isRefreshingToken = FALSE
  /\ tokenGetter = "none"
  /\ token = 0
  /\ reqPc = [r \in ReqIds |-> "new"]
  /\ reqNoToken = [r \in ReqIds |-> FALSE]
  /\ reqRetry = [r \in ReqIds |-> FALSE]
  /\ reqHdr = [r \in ReqIds |-> NoHeader]
  /\ reqToast = [r \in ReqIds |-> FALSE]
  /\ reqBusy = [r \in ReqIds |-> FALSE]
  /\ reqSends = [r \in ReqIds |-> 0]
  /\ refreshCalls = 0
  /\ refreshSettled = 0
  /\ logoutCalls = 0
  /\ apiLastOp = "none"
  /\ lastReq = 0
  /\ lastStatus = -1
  /\ toasted = 0

Statuses == {401, 500, 0}
RefreshOutcomes == {"refreshed", "noToken", "notRefreshed", "threw"}

NextApi ==
  \/ \E kind \in {"noUpdate", "full"}, tok \in {0, 1} : setTokenGetter(kind, tok)
  \/ \E r \in ReqIds, noToken \in BOOLEAN, showErrorToast \in BOOLEAN :
        Send(r, noToken, showErrorToast)
  \/ \E r \in ReqIds : RespondOk(r)
  \/ \E r \in ReqIds, status \in Statuses, pw \in BOOLEAN : RespondError(r, status, pw)
  \/ \E r \in ReqIds, outcome \in RefreshOutcomes : RefreshSettles(r, outcome)
  \/ \E r \in ReqIds : RetryOk(r)
  \/ \E r \in ReqIds, status \in Statuses : RetryError(r, status)


(***************************************************************************)
(* The session manager (useKeycloak). The application mounts one hook      *)
(* instance, in KeycloakProvider; every consumer reaches it through the    *)
(* context. A handler is a function from the session state to the session  *)
(* state; an action commits what its handler returns. setState calls are   *)
(* applied at once; the effect that depends on the changed state runs as a *)
(* later step.                                                             *)
(***************************************************************************)
InstIds == 1..(MaxInits + MaxRestarts)
CallIds == 1..(MaxCalls + MaxRestarts)
SuperRole == "tsadmin"
Roles == {"tsadmin", "viewer", "editor"}
\* realmAccess and resourceAccess of an instance without a token
NoRoles == [realm |-> {}, client |-> {}]
\* what a call resolved to: nothing yet, the Keycloak instance, the
\* {keycloakInstance, authenticated} object of the init promise, or a rejection
NoResult == [kind |-> "none", inst |-> 0]
\* early: the call was made before the first call resolved (read by the properties only)
NoCall == [pc |-> "none", p |-> 0, res |-> NoResult, early |-> FALSE]

KcState ==
  [keycloakSingleton |-> keycloakSingleton, keycloakInitPromise |-> keycloakInitPromise,
   initializationState |-> initializationState, globalError |-> globalError,
   stateSubscribers |-> stateSubscribers, keycloak |-> keycloak,
   authenticated |-> kcAuthenticated, loading |-> loading, error |-> error,
   isMountedRef |-> isMountedRef, updateTokenTimeoutRef |-> updateTokenTimeoutRef,
   orphanTimers |-> orphanTimers, effectPending |-> effectPending, handshake |-> handshake,
   instAuthenticated |-> instAuthenticated, instRoles |-> instRoles, calls |-> calls,
   tokenUpdates |-> tokenUpdates, signOuts |-> signOuts, notices |-> <<>>,
   manualUpdates |-> manualUpdates, effects |-> {}, returned |-> "none", called |-> 0,
   trail |-> <<>>]

CommitKc(st) ==
  /\ keycloakSingleton' = st.keycloakSingleton
  /\ keycloakInitPromise' = st.keycloakInitPromise
  /\ initializationState' = st.initializationState
  /\ globalError' = st.globalError
  /\ stateSubscribers' = st.stateSubscribers
  /\ keycloak' = st.keycloak
  /\ kcAuthenticated' = st.authenticated
  /\ loading' = st.loading
  /\ error' = st.error
  /\ isMountedRef' = st.isMountedRef
  /\ updateTokenTimeoutRef' = st.updateTokenTimeoutRef
  /\ orphanTimers' = st.orphanTimers
  /\ effectPending' = st.effectPending
  /\ handshake' = st.handshake
  /\ instAuthenticated' = st.instAuthenticated
  /\ instRoles' = st.instRoles
  /\ calls' = st.calls
  /\ tokenUpdates' = st.tokenUpdates
  /\ signOuts' = st.signOuts
  /\ notices' = st.notices
  /\ manualUpdates' = st.manualUpdates
  /\ effects' = st.effects
  /\ returned' = st.returned
  /\ called' = st.called
  /\ trail' = st.trail

\* initializationState = s
setInitializationState(st, s) ==
  [st EXCEPT !.initializationState = s, !.trail = Append(@, s)]

\* setToken(...) and setRefreshToken(...)
setToken(st) == [st EXCEPT !.effects = @ \cup {"setToken"}]

\* the provider is asked for a new credential
tokenRequest(st) == [st EXCEPT !.effects = @ \cup {"tokenRequest"}]

\* setKeycloak(v): initKeycloak is rebuilt when the keycloak state changes, and the
\* mount effect depends on it
setKeycloak(st, v) ==
  [st EXCEPT !.keycloak = v, !.effectPending = @ \/ st.keycloak # v]

\* the hook's subscriber
handleStateChange(st, type, inst, auth) ==
  IF ~st.isMountedRef THEN st
  ELSE CASE type = "RESET" ->
              [setToken(setKeycloak(st, 0)) EXCEPT !.authenticated = FALSE, !.loading = FALSE,
                                                   !.error = "none"]
         [] type = "INITIALIZED" ->
              [setKeycloak(st, inst) EXCEPT !.authenticated = auth, !.loading = FALSE,
                                            !.error = "none"]
         [] type = "ERROR" -> [st EXCEPT !.error = "init", !.loading = FALSE]
         [] type = "TOKEN_UPDATED" -> setToken(st)
         [] OTHER -> st

\* subscriber(newState) inside the loop of notifyStateChange
callSubscriber(st, type, inst, auth) ==
  handleStateChange([st EXCEPT !.called = @ + 1], type, inst, auth)

notifyStateChangeSnapshot(st, type, inst, auth) ==
  callSubscriber([st EXCEPT !.notices = Append(@, type)], type, inst, auth)

\* stateSubscribers.forEach(subscriber => subscriber(newState))
notifyStateChange(st, type, inst, auth) ==
  LET sent == [st EXCEPT !.notices = Append(@, type)]
  IN IF st.stateSubscribers THEN callSubscriber(sent, type, inst, auth) ELSE sent

resetGlobalStateKeepsSession(st) ==
  notifyStateChange([st EXCEPT !.keycloakInitPromise = 0, !.globalError = FALSE],
                    "RESET", 0, FALSE)

resetGlobalState(st) ==
  notifyStateChange([setInitializationState(st, "idle") EXCEPT
                       !.keycloakSingleton = 0, !.keycloakInitPromise = 0,
                       !.globalError = FALSE],
                    "RESET", 0, FALSE)

\* keycloakInstance?.authenticated
InstAuth(st, inst) == inst # 0 /\ st.instAuthenticated[inst]

\* the roles of this client in resourceAccess
getClientRoles(st, inst) == IF InstAuth(st, inst) THEN st.instRoles[inst].client ELSE {}

getUserRolesRealmOnly(st, inst) ==
  IF InstAuth(st, inst) THEN st.instRoles[inst].realm ELSE {}

\* [...realmRoles, ...clientRoles]
getUserRoles(st, inst) ==
  IF InstAuth(st, inst) THEN st.instRoles[inst].realm \cup getClientRoles(st, inst) ELSE {}

hasSuperRole(st, inst) == InstAuth(st, inst) /\ SuperRole \in getUserRoles(st, inst)

\* requiredRole "" stands for a missing role name
hasRole(st, requiredRole) ==
  IF ~st.authenticated \/ requiredRole = "" THEN FALSE
  ELSE IF hasSuperRole(st, st.keycloak) THEN TRUE
  ELSE requiredRole \in getUserRoles(st, st.keycloak)

keepTokenTimer(st) == st

\* if (updateTokenTimeoutRef.current) { clearTimeout(...); updateTokenTimeoutRef.current = null }
clearTokenTimer(st) == [st EXCEPT !.updateTokenTimeoutRef = FALSE]

\* the updateToken closure of setupTokenRefresh, up to its await
scheduledUpdate(st) ==
  IF ~st.isMountedRef THEN st ELSE [st EXCEPT !.tokenUpdates = @ + 1]

setupTokenRefresh(st, inst) ==
  IF inst = 0 \/ ~st.isMountedRef THEN st
  ELSE scheduledUpdate(clearTokenTimer(st))


Done(call, kind, inst) ==
  [call EXCEPT !.pc = "done", !.p = inst, !.res = [kind |-> kind, inst |-> inst]]

Started(st) == {i \in InstIds : st.handshake[i] # "none"}
Issued(st) == {c \in CallIds : st.calls[c].pc # "none"}

\* new Keycloak(KEYCLOAK_CONFIG) and keycloakInstance.init(...): the promise is pending
startHandshake(st) ==
  LET i == Cardinality(Started(st)) + 1
  IN [st EXCEPT !.keycloakInitPromise = i, !.handshake[i] = "pending"]

\* initKeycloak after "await keycloakInitPromise" gave it instance i, up to its next
\* await (loadUserInfo awaits the provider only for an authenticated instance)
continueInit(st, c, i) ==
  IF ~st.isMountedRef THEN [st EXCEPT !.calls[c] = Done(@, "instance", i)]
  ELSE LET auth == st.instAuthenticated[i]
           shown == [setKeycloak(st, i) EXCEPT !.authenticated = auth]
       IN IF auth
          THEN [setToken(shown) EXCEPT !.calls[c] = [@ EXCEPT !.pc = "loadUser", !.p = i]]
          ELSE [shown EXCEPT !.loading = FALSE, !.calls[c] = Done(@, "instance", i)]

\* what the caller gets from the promise p it returned or awaits
awaitPromise(st, c, p, adopted) ==
  IF p = 0 THEN [st EXCEPT !.calls[c] = Done(@, "null", 0)]
  ELSE IF st.handshake[p] = "rejected" THEN [st EXCEPT !.calls[c] = Done(@, "rejected", p)]
  ELSE IF st.handshake[p] = "pending"
       THEN [st EXCEPT !.calls[c] = [@ EXCEPT !.pc = IF adopted THEN "adopted" ELSE "awaitInit",
                                                !.p = p]]
  ELSE IF adopted THEN [st EXCEPT !.calls[c] = Done(@, "wrapper", p)]
  ELSE continueInit(st, c, p)

alreadyInitializedNever(st) == FALSE

\* initializationState === 'initialized' && keycloakSingleton
alreadyInitialized(st) ==
  st.initializationState = "initialized" /\ st.keycloakSingleton # 0

\* the call goes past the two early returns
initProceeds(st) ==
  /\ st.initializationState # "initializing"
  /\ ~alreadyInitialized(st)

initKeycloak(st0, c) ==
  LET st == [st0 EXCEPT !.calls[c].early = (c = 1 \/ st0.calls[1].pc # "done")] IN
  IF st.initializationState = "initializing"
  THEN awaitPromise(st, c, st.keycloakInitPromise, TRUE)
  ELSE IF alreadyInitialized(st)
  THEN [st EXCEPT !.calls[c] = Done(@, "instance", st.keycloakSingleton)]
  ELSE LET retried == IF st.initializationState = "failed" THEN resetGlobalState(st) ELSE st
           announced == notifyStateChange([setInitializationState(retried, "initializing")
                                             EXCEPT !.globalError = FALSE],
                                          "LOADING", 0, FALSE)
           created == IF announced.keycloakInitPromise = 0 THEN startHandshake(announced)
                      ELSE announced
       IN awaitPromise(created, c, created.keycloakInitPromise, FALSE)

\* the call would need an instance id beyond the bound
NoInstLeft(st, extra) ==
  /\ initProceeds(st)
  /\ Cardinality(Started(st)) >= MaxInits + extra

\* the reactions of the promise of handshake i, in the order the calls were made
RECURSIVE settleCalls(_, _, _, _)
settleCalls(st, i, ok, c) ==
  IF c \notin CallIds THEN st
  ELSE LET call == st.calls[c]
           next == IF call.p # i \/ call.pc \notin {"adopted", "awaitInit"} THEN st
                   ELSE IF ~ok THEN [st EXCEPT !.calls[c] = Done(@, "rejected", i)]
                   ELSE IF call.pc = "adopted" THEN [st EXCEPT !.calls[c] = Done(@, "wrapper", i)]
                   ELSE continueInit(st, c, i)
       IN settleCalls(next, i, ok, c + 1)

\* keycloakInstance.init() resolved: the rest of the promise body, then the callers
initResolved(st, i, auth, roles) ==
  LET stored == [setInitializationState(st, "initialized") EXCEPT
                   !.handshake[i] = "resolved", !.instAuthenticated[i] = auth,
                   !.instRoles[i] = roles, !.keycloakSingleton = i]
  IN settleCalls(notifyStateChange(stored, "INITIALIZED", i, auth), i, TRUE, 1)

initRejectedSilently(st, i) ==
  LET stored == [setInitializationState(st, "failed") EXCEPT
                   !.handshake[i] = "rejected", !.globalError = TRUE]
  IN settleCalls(stored, i, FALSE, 1)

\* keycloakInstance.init() rejected: the catch of the promise body, then the callers
initRejected(st, i) ==
  LET stored == [setInitializationState(st, "failed") EXCEPT
                   !.handshake[i] = "rejected", !.globalError = TRUE]
  IN settleCalls(notifyStateChange(stored, "ERROR", 0, FALSE), i, FALSE, 1)

\* initKeycloak after "await loadUserInfo(keycloakInstance)"
afterLoadUser(st, c, ok) ==
  LET i == st.calls[c].p
      told == IF st.isMountedRef /\ ~ok THEN [st EXCEPT !.error = "user"] ELSE st
  IN [setupTokenRefresh(told, i) EXCEPT !.loading = FALSE, !.calls[c] = Done(@, "instance", i)]

\* the catch block of logout
logoutFailed(st) ==
  resetGlobalState(IF st.isMountedRef THEN [st EXCEPT !.error = "logout", !.loading = FALSE]
                   ELSE st)

\* logout, for a non-null keycloak state, up to "await keycloak.logout(...)"; threw:
\* keycloak.logout threw before returning its promise
logout(st, threw) ==
  LET cleared == clearTokenTimer(st)
      hidden == IF cleared.isMountedRef
                THEN [setToken(cleared) EXCEPT !.authenticated = FALSE, !.loading = TRUE]
                ELSE cleared
      reset == resetGlobalState(hidden)
  IN IF threw THEN logoutFailed(reset) ELSE [reset EXCEPT !.signOuts = @ + 1]

\* the body of the mount effect
mountEffect(st, c) ==
  LET live == [st EXCEPT !.isMountedRef = TRUE]
  IN IF live.initializationState \in {"idle", "failed"} THEN initKeycloak(live, c)
     ELSE IF live.initializationState = "initialized" /\ live.keycloakSingleton # 0
     THEN [setToken(setKeycloak(live, live.keycloakSingleton)) EXCEPT
             !.authenticated = InstAuth(live, live.keycloakSingleton), !.loading = FALSE]
     ELSE live

\* the cleanup of the mount effect
mountCleanup(st) == clearTokenTimer([st EXCEPT !.isMountedRef = FALSE])

\* the provider rejected the refresh because the session is no longer valid; fires:
\* the library then calls the instance's onAuthLogout, which the promise body set
\* to resetGlobalState
onAuthLogout(st, fires) == IF fires THEN resetGlobalState(st) ELSE st

\* the scheduled updateToken after "await keycloakInstance.updateToken(30)":
\* "refreshed" (true), "valid" (false: the token is still valid), "failed" (rejected)
\* or "invalid" (rejected, the session is no longer valid)
updateSettled(st, outcome, fires) ==
  LET asked == IF outcome = "valid" THEN st ELSE tokenRequest(st)
      back == [asked EXCEPT !.tokenUpdates = @ - 1]
  IN IF outcome \in {"failed", "invalid"}
     THEN LET out == IF outcome = "invalid" THEN onAuthLogout(back, fires) ELSE back
          IN IF out.isMountedRef THEN [out EXCEPT !.error = "refresh"] ELSE out
     ELSE LET told == IF outcome = "refreshed" /\ back.isMountedRef
                      THEN notifyStateChange(setToken(back), "TOKEN_UPDATED", 0, FALSE)
                      ELSE back
          IN IF told.isMountedRef
             THEN [told EXCEPT !.updateTokenTimeoutRef = TRUE,
                               !.orphanTimers = IF told.updateTokenTimeoutRef THEN @ + 1 ELSE @]
             ELSE told

\* keycloak.updateToken(minValidity) asks the provider only when the credential
\* has less than minValidity seconds left
providerRefreshes(remaining, minValidity) == remaining < minValidity

publishesAlways(refreshed, isMounted) == isMounted

\* updateToken: "if (refreshed && isMountedRef.current)"
publishes(refreshed, isMounted) == refreshed /\ isMounted

\* updateToken after "await keycloak.updateToken(minValidity)" resolved
manualResolved(st, refreshed) ==
  LET told == IF publishes(refreshed, st.isMountedRef)
              THEN notifyStateChange(setToken(st), "TOKEN_UPDATED", 0, FALSE)
              ELSE st
  IN [told EXCEPT !.returned = IF refreshed THEN "true" ELSE "false"]

manualRejectedResets(st) == [resetGlobalState(st) EXCEPT !.returned = "threw"]

\* updateToken's catch: console.error, throw err
manualRejected(st) == [st EXCEPT !.returned = "threw"]

\* updateToken(minValidity) with a non-null keycloak state, up to its await, and
\* through it when the provider need not be asked
updateToken(st, remaining, minValidity) ==
  IF providerRefreshes(remaining, minValidity)
  THEN [tokenRequest(st) EXCEPT !.manualUpdates = @ + 1]
  ELSE manualResolved(st, FALSE)

KcFrame == UNCHANGED <<wsVars, apiVars, msgVars, lifeVars>>

NextCall == Cardinality(Issued(KcState)) + 1

\* the provider mounts: the subscription effect, then the mount effect
Mount ==
  /\ mounted = "no"
  /\ CommitKc(mountEffect([KcState EXCEPT !.stateSubscribers = TRUE], NextCall))
  /\ mounted' = "yes"
  /\ kcLastOp' = "mount"
  /\ UNCHANGED <<timerAtLogout, loggedOut>>
  /\ KcFrame

\* the keycloak state changed, so initKeycloak is a new function and the mount
\* effect runs again: its cleanup, then its body
MountEffectAgainWithin(extra) ==
  /\ mounted = "yes"
  /\ effectPending
  /\ LET st == [mountCleanup(KcState) EXCEPT !.effectPending = FALSE]
     IN /\ st.initializationState \in {"idle", "failed"} =>
             NextCall <= MaxCalls + extra /\ ~NoInstLeft(st, extra)
        /\ CommitKc(mountEffect(st, NextCall))
  /\ kcLastOp' = "mountEffect"
  /\ UNCHANGED <<mounted, timerAtLogout, loggedOut>>
  /\ KcFrame

MountEffectAgain == MountEffectAgainWithin(0)

\* a consumer calls initKeycloak()
InitKeycloakWithin(extra) ==
  /\ mounted = "yes"
  /\ NextCall <= MaxCalls + extra
  /\ ~NoInstLeft(KcState, extra)
  /\ CommitKc(initKeycloak(KcState, NextCall))
  /\ kcLastOp' = "initKeycloak"
  /\ UNCHANGED <<mounted, timerAtLogout, loggedOut>>
  /\ KcFrame

InitKeycloak == InitKeycloakWithin(0)

\* the identity provider completes handshake i
InitResolves(i, auth, roles) ==
  /\ handshake[i] = "pending"
  /\ CommitKc(initResolved(KcState, i, auth, roles))
  /\ kcLastOp' = "initResolved"
  /\ loggedOut' = FALSE
  /\ UNCHANGED <<mounted, timerAtLogout>>
  /\ KcFrame

\* handshake i fails
InitRejects(i) ==
  /\ handshake[i] = "pending"
  /\ CommitKc(initRejected(KcState, i))
  /\ kcLastOp' = "initRejected"
  /\ UNCHANGED <<mounted, timerAtLogout, loggedOut>>
  /\ KcFrame

\* loadUserProfile() settles for call c
LoadUserSettles(c, ok) ==
  /\ calls[c].pc = "loadUser"
  /\ isMountedRef => tokenUpdates < MaxTokenUpdates
  /\ CommitKc(afterLoadUser(KcState, c, ok))
  /\ kcLastOp' = "loadUser"
  /\ UNCHANGED <<mounted, timerAtLogout, loggedOut>>
  /\ KcFrame

\* a consumer, or the gateway interceptor, calls logout(); with a null keycloak
\* state the call returns at once
Logout(threw) ==
  /\ mounted = "yes"
  /\ keycloak # 0
  /\ CommitKc(logout(KcState, threw))
  /\ kcLastOp' = IF threw THEN "logoutThrew" ELSE "logout"
  /\ timerAtLogout' = updateTokenTimeoutRef
  /\ loggedOut' = TRUE
  /\ UNCHANGED mounted
  /\ KcFrame

\* keycloak.logout() settles
SignOutSettles(ok) ==
  /\ signOuts > 0
  /\ LET back == [KcState EXCEPT !.signOuts = @ - 1]
     IN CommitKc(IF ok THEN back ELSE logoutFailed(back))
  /\ kcLastOp' = IF ok THEN "signedOut" ELSE "signOutFailed"
  /\ UNCHANGED <<mounted, timerAtLogout, loggedOut>>
  /\ KcFrame

\* the five-minute timeout the ref holds fires
TokenTimerFires ==
  /\ updateTokenTimeoutRef
  /\ isMountedRef => tokenUpdates < MaxTokenUpdates
  /\ CommitKc(scheduledUpdate([KcState EXCEPT !.updateTokenTimeoutRef = FALSE]))
  /\ kcLastOp' = "tokenTimer"
  /\ UNCHANGED <<mounted, timerAtLogout, loggedOut>>
  /\ KcFrame

\* a timeout the ref no longer holds fires
OrphanTimerFires ==
  /\ orphanTimers > 0
  /\ isMountedRef => tokenUpdates < MaxTokenUpdates
  /\ CommitKc(scheduledUpdate([KcState EXCEPT !.orphanTimers = @ - 1]))
  /\ kcLastOp' = "orphanTimer"
  /\ UNCHANGED <<mounted, timerAtLogout, loggedOut>>
  /\ KcFrame

\* keycloakInstance.updateToken(30) of a scheduled update settles
TokenUpdateSettles(outcome, fires) ==
  /\ tokenUpdates > 0
  /\ fires => outcome = "invalid"
  /\ (outcome \in {"refreshed", "valid"} /\ isMountedRef /\ updateTokenTimeoutRef) =>
        orphanTimers < MaxOrphanTimers
  /\ CommitKc(updateSettled(KcState, outcome, fires))
  /\ kcLastOp' = CASE outcome = "failed" -> "tokenUpdateFailed"
                   [] outcome = "invalid" -> "tokenUpdateInvalid"
                   [] OTHER -> "tokenUpdate"
  /\ UNCHANGED <<mounted, timerAtLogout, loggedOut>>
  /\ KcFrame

\* a consumer, or the gateway interceptor, calls updateToken(minValidity) while the
\* credential has `remaining` seconds left; with a null keycloak state it throws
UpdateToken(remaining, minValidity) ==
  /\ mounted = "yes"
  /\ IF keycloak = 0
     THEN /\ CommitKc(manualRejected(KcState))
          /\ kcLastOp' = "updateTokenUninit"
     ELSE /\ providerRefreshes(remaining, minValidity) => manualUpdates < MaxManualUpdates
          /\ CommitKc(updateToken(KcState, remaining, minValidity))
          /\ kcLastOp' = IF providerRefreshes(remaining, minValidity)
                         THEN "updateToken" ELSE "updateTokenValid"
  /\ UNCHANGED <<mounted, timerAtLogout, loggedOut>>
  /\ KcFrame

\* keycloak.updateToken(minValidity) of a consumer's call settles
UpdateTokenSettles(outcome, fires) ==
  /\ manualUpdates > 0
  /\ fires => outcome = "invalid"
  /\ LET back == [KcState EXCEPT !.manualUpdates = @ - 1]
     IN CommitKc(CASE outcome = "refreshed" -> manualResolved(back, TRUE)
                   [] outcome = "invalid" -> manualRejected(onAuthLogout(back, fires))
                   [] OTHER -> manualRejected(back))
  /\ kcLastOp' = CASE outcome = "refreshed" -> "updateTokenRefreshed"
                   [] outcome = "invalid" -> "updateTokenInvalid"
                   [] OTHER -> "updateTokenFailed"
  /\ UNCHANGED <<mounted, timerAtLogout, loggedOut>>
  /\ KcFrame

\* the provider unmounts: the cleanups of both effects
Unmount ==
  /\ mounted = "yes"
  /\ CommitKc(mountCleanup([KcState EXCEPT !.stateSubscribers = FALSE]))
  /\ mounted' = "gone"
  /\ kcLastOp' = "unmount"
  /\ UNCHANGED <<timerAtLogout, loggedOut>>
  /\ KcFrame

InitKc ==
  /\ keycloakSingleton = 0
  /\ keycloakInitPromise = 0
  /\ initializationState = "idle"
  /\ globalError = FALSE
  /\ stateSubscribers = FALSE
  /\ keycloak = 0
  /\ kcAuthenticated = FALSE
  /\ loading = FALSE
  /\ error = "none"
  /\ isMountedRef = TRUE
  /\ updateTokenTimeoutRef = FALSE
  /\ orphanTimers = 0
  /\ effectPending = FALSE
  /\ mounted = "no"
  /\ handshake = [i \in InstIds |-> "none"]
  /\ instAuthenticated = [i \in InstIds |-> FALSE]
  /\ instRoles = [i \in InstIds |-> NoRoles]
  /\ calls = [c \in CallIds |-> NoCall]
  /\ tokenUpdates = 0
  /\ signOuts = 0
  /\ kcLastOp = "none"
  /\ notices = <<>>
  /\ manualUpdates = 0
  /\ effects = {}
  /\ returned = "none"
  /\ called = 0
  /\ trail = <<>>
  /\ timerAtLogout = FALSE
  /\ loggedOut = FALSE

\* init() resolves to false, or to true with the roles of the token
InitOutcomes ==
  { <<FALSE, NoRoles>>,
    <<TRUE, [realm |-> {"viewer"}, client |-> {"editor"}]>>,
    <<TRUE, [realm |-> {"viewer"}, client |-> {"tsadmin"}]>> }

\* seconds of validity the credential has left, and the thresholds callers pass
Remaining == {10, 30, 200}
MinValidities == {30}

NextKc ==
  \/ Mount
  \/ MountEffectAgain
  \/ InitKeycloak
  \/ \E i \in InstIds, o \in InitOutcomes : InitResolves(i, o[1], o[2])
  \/ \E i \in InstIds : InitRejects(i)
  \/ \E c \in CallIds, ok \in BOOLEAN : LoadUserSettles(c, ok)
  \/ \E threw \in BOOLEAN : Logout(threw)
  \/ \E ok \in BOOLEAN : SignOutSettles(ok)
  \/ TokenTimerFires
  \/ OrphanTimerFires
  \/ \E outcome \in {"refreshed", "valid", "failed"} : TokenUpdateSettles(outcome, FALSE)
  \/ Unmount

\* the hook with its consumers' updateToken calls and a provider that may find the
\* session invalid; logout() and further initKeycloak() calls are left to NextKc
NextTok ==
  \/ Mount
  \/ \E i \in InstIds, o \in InitOutcomes : InitResolves(i, o[1], o[2])
  \/ \E i \in InstIds : InitRejects(i)
  \/ \E c \in CallIds, ok \in BOOLEAN : LoadUserSettles(c, ok)
  \/ TokenTimerFires
  \/ \E outcome \in {"refreshed", "valid", "failed", "invalid"}, fires \in BOOLEAN :
        TokenUpdateSettles(outcome, fires)
  \/ \E remaining \in Remaining, minValidity \in MinValidities :
        UpdateToken(remaining, minValidity)
  \/ \E outcome \in {"refreshed", "failed", "invalid"}, fires \in BOOLEAN :
        UpdateTokenSettles(outcome, fires)
  \/ Unmount

\* one connection with its listeners and inbound messages; failures and
\* reconnection are left to NextWs
NextMsg ==
  \/ AuthEffect
  \/ AutoTimerFire
  \/ Connect
  \/ Disconnect
  \/ \E isCur \in BOOLEAN, k \in SockKinds, hasToken \in BOOLEAN : OnOpen(isCur, k, hasToken)
  \/ \E type \in EventTypes, h \in Handlers : AddEventListener(type, h)
  \/ \E type \in EventTypes, h \in Handlers : RemoveEventListener(type, h)
  \/ \E isCur \in BOOLEAN, k \in SockKinds, type \in EventTypes,
        thrower \in Handlers \cup {NoHandler} : OnMessage(isCur, k, type, thrower)

\* the registry alone: registrations and the functions addEventListener returns
NextReg ==
  \/ \E type \in EventTypes, h \in Handlers : AddEventListener(type, h)
  \/ \E type \in EventTypes, h \in Handlers : RemoveEventListener(type, h)
  \/ \E type \in EventTypes, h \in Handlers : Unregister(type, h)
  \/ \E type \in EventTypes, h \in Handlers : UnregisterAgain(type, h)

Init == InitWs /\ InitApi /\ InitKc /\ InitMsg /\ InitLife

SpecReg == Init /\ [][NextReg]_vars

SpecWs == Init /\ [][NextWs]_vars

SpecApi == Init /\ [][NextApi]_vars

SpecKc == Init /\ [][NextKc]_vars

SpecTok == Init /\ [][NextTok]_vars

\* initialization, logout and re-initialization with MaxRestarts further calls; the
\* refresh timers are left to NextKc
NextInit ==
  \/ Mount
  \/ MountEffectAgainWithin(MaxRestarts)
  \/ InitKeycloakWithin(MaxRestarts)
  \/ \E i \in InstIds, o \in InitOutcomes : InitResolves(i, o[1], o[2])
  \/ \E i \in InstIds : InitRejects(i)
  \/ \E c \in CallIds, ok \in BOOLEAN : LoadUserSettles(c, ok)
  \/ \E threw \in BOOLEAN : Logout(threw)
  \/ \E ok \in BOOLEAN : SignOutSettles(ok)

SpecInit == Init /\ [][NextInit]_vars

SpecMsg == Init /\ [][NextMsg]_vars

\* the connection manager configured with authMethod 'message'
InitInband == InitWsFor("message") /\ InitApi /\ InitKc /\ InitMsg /\ InitLife

\* connections that open and are closed by the consumer; failures and reconnection
\* are left to NextWs
NextInband ==
  \/ AuthEffect
  \/ AutoTimerFire
  \/ Connect
  \/ Disconnect
  \/ SendMessage
  \/ \E isCur \in BOOLEAN, k \in SockKinds, hasToken \in BOOLEAN : OnOpen(isCur, k, hasToken)

SpecInband == InitInband /\ [][NextInband]_vars

\* the consumer's life: connecting, reconnect(), failures and the unmount; the
\* consumer calls nothing after the unmount, events and timeouts still arrive
NextLife ==
  \/ Connect
  \/ Disconnect
  \/ Reconnect
  \/ AuthEffect
  \/ WsUnmount
  \/ AutoTimerFire
  \/ ReconnectTimerFire
  \/ \E c \in Closures : ReconnectCallFire(c)
  \/ \E isCur \in BOOLEAN, k \in SockKinds, hasToken \in BOOLEAN : OnOpen(isCur, k, hasToken)
  \/ \E isCur \in BOOLEAN, k \in SockKinds : OnError(isCur, k)
  \/ \E isCur \in BOOLEAN, k \in SockKinds, wasClean \in BOOLEAN : OnClose(isCur, k, wasClean)

SpecLife == Init /\ [][NextLife]_vars


(***************************************************************************)
(* Properties of the connection manager.                                   *)
(***************************************************************************)
\* strictly increasing: no message twice, none ahead of an earlier one
Increasing(q) == \A i, j \in 1..Len(q) : i < j => q[i] < q[j]

\* how many transports are connecting or open
NumLive ==
  (IF cur.rs \in {"CONNECTING", "OPEN"} THEN 1 ELSE 0)
  + stale[ConnectingSock] + stale[Sock("OPEN", TRUE, FALSE, "none")]

\* no transport can deliver an event any more
AllSettled == ~Pending(cur) /\ NumStale(WsState) = 0

\* C4 as stated: right after a successful open, every message that was passed to
\* sendMessage has been handed to a transport (a message passed while the
\* connection was open was handed over at once, so this is about the queued ones).
C4_EveryQueuedMessageDelivered ==
  lastOp = "onopen" => \A m \in 1..nMsg : m \in Range(wire)

\* C4 amended: a message queued by sendMessage is handed to a transport exactly
\* once, in enqueue order, by the next successful open and ahead of every later
\* message, unless a disconnect() before that open discarded it with the queue.
\* Every message is in exactly one of: the wire, the queue, the discarded set;
\* wire and queue are in enqueue order; an open leaves the queue empty, having
\* handed over exactly what was queued.
C4_QueuedDeliveredUnlessDiscarded ==
  /\ Increasing(wire)
  /\ Increasing(messageQueue)
  /\ \A m \in 1..nMsg :
       /\ m \in Range(wire) \cup Range(messageQueue) \cup discarded
       /\ ~(m \in Range(wire) /\ m \in Range(messageQueue))
       /\ ~(m \in Range(wire) /\ m \in discarded)
       /\ ~(m \in Range(messageQueue) /\ m \in discarded)
  /\ \A i \in 1..Len(wire), j \in 1..Len(messageQueue) : wire[i] < messageQueue[j]
  /\ lastOp = "onopen" =>
       /\ messageQueue = <<>>
       /\ \A m \in 1..nMsg : m \in Range(wire) \/ m \in discarded

\* an open has just handed two queued messages to its transport, in order
C4_Witness == lastOp = "onopen" /\ lastSent = <<1, 2>>

\* C5: the reconnect-attempt counter never exceeds maxReconnectAttempts, and it is
\* 0 right after every successful open.
C5_AttemptsBoundedAndReset ==
  /\ reconnectAttempts \in 0..MaxReconnectAttempts
  /\ lastOp = "onopen" => reconnectAttempts = 0

\* an open has just reset the counter after it had reached the maximum
C5_Witness ==
  /\ lastOp = "onopen"
  /\ reconnectAttempts = 0
  /\ resetFrom = MaxReconnectAttempts

\* C6: no reconnect timeout is pending that was armed by the close event of a
\* transport disconnect() had closed.
C6_NoReconnectAfterDisconnect ==
  ~(reconnectTimer /\ timerCause = "userClose")

\* C7: in a run of one first connect followed only by unclean closures and timer
\* reconnects, the timer makes at most N reconnect attempts; when nothing is left
\* pending exactly N were made, the exhaustion error is set and no timeout is armed.
C7_ExactlyMaxAttemptsThenExhausted ==
  pureRun =>
    /\ timerConnects <= MaxReconnectAttempts
    /\ wsError = "exhausted" =>
         /\ timerConnects = MaxReconnectAttempts
         /\ ~reconnectTimer
         /\ AllSettled
    /\ (~Fresh /\ AllSettled /\ ~reconnectTimer) =>
         /\ timerConnects = MaxReconnectAttempts
         /\ reconnectAttempts = MaxReconnectAttempts
         /\ wsError = "exhausted"

\* N timer reconnects have all closed uncleanly: exhausted
C7_Witness ==
  pureRun /\ wsError = "exhausted" /\ timerConnects = MaxReconnectAttempts /\ ~reconnectTimer

\* C8: at most one transport is connecting or open.
C8_AtMostOneLiveTransport == NumLive <= 1


(***************************************************************************)
(* Properties of the gateway interceptor                                   *)
(***************************************************************************)
Refreshing == {r \in ReqIds : reqPc[r] = "refreshing"}

\* C2: at no time are two refresh calls started by the interceptor in flight
\* together; in particular, while no refresh has settled yet, however many
\* requests have received a 401, exactly one refresh call has been issued.
C2_SingleRefreshInFlight ==
  /\ Cardinality(Refreshing) <= 1
  /\ refreshCalls - refreshSettled = Cardinality(Refreshing)
  /\ (refreshSettled = 0 /\ Refreshing # {}) => refreshCalls = 1

\* two requests have received a 401 and the second arrived during the first's refresh
C2_Witness ==
  /\ Refreshing # {}
  /\ refreshSettled = 0
  /\ \E r \in ReqIds : reqBusy[r]

\* C3: a request whose 401 arrives while a refresh is in flight is not rejected
\* without having been retried.
C3_BusyRequestRetried ==
  \A r \in ReqIds : (reqBusy[r] /\ reqPc[r] = "rejected") => reqSends[r] > 1

(***************************************************************************)
(* Properties of the session manager                                       *)
(***************************************************************************)
Resolved(c) == calls[c].res.kind \in {"instance", "wrapper", "null"}

\* C1: the initKeycloak() calls made before the first call resolves, and served by
\* the same handshake, all resolve to the same value, the session instance.
C1_CallersResolveToSameInstance ==
  \A c, d \in CallIds :
    (calls[c].early /\ calls[d].early /\ Resolved(c) /\ Resolved(d) /\ calls[c].p = calls[d].p)
      => /\ calls[c].res = calls[d].res
         /\ calls[c].res.kind = "instance"

AnyRole == Roles \cup {""}

SessionEmpty == keycloakSingleton = 0 /\ initializationState = "idle"

\* C9: when logout() ran while the refresh timeout of the ref was pending, then right
\* after it the timeout is cancelled and the store is empty (no instance, state
\* idle); and from then on, until a handshake resolves again, hasRole(r) is false
\* for every r.
C9_LogoutCancelsTimerAndEmptiesStore ==
  /\ (kcLastOp \in {"logout", "logoutThrew"} /\ timerAtLogout) =>
        ~updateTokenTimeoutRef /\ SessionEmpty
  /\ (loggedOut /\ timerAtLogout) => \A r \in AnyRole : ~hasRole(KcState, r)

\* logout() has just run with the timeout pending, for a user who had the role
C9_Witness ==
  /\ kcLastOp = "logout"
  /\ timerAtLogout
  /\ \E i \in InstIds : instAuthenticated[i] /\ SuperRole \in getUserRoles(KcState, i)

\* C10: logout() clears the refresh timeout, empties the store and sends RESET
\* before it awaits the provider's sign-out, and when the sign-out throws or rejects
\* the store is emptied and RESET is sent once more.
C10_CleanupDespiteSignOutFailure ==
  /\ kcLastOp \in {"logout", "logoutThrew"} =>
        ~updateTokenTimeoutRef /\ SessionEmpty /\ "RESET" \in Range(notices)
  /\ kcLastOp \in {"logoutThrew", "signOutFailed"} =>
        SessionEmpty /\ keycloakInitPromise = 0 /\ notices[Len(notices)] = "RESET"

\* the provider's sign-out has just failed, after a logout that cancelled a timeout
C10_Witness ==
  /\ kcLastOp = "signOutFailed"
  /\ timerAtLogout

\* a scheduled update has just settled in a mounted hook that no logout() reached
AttemptSettled ==
  /\ kcLastOp \in {"tokenUpdate", "tokenUpdateFailed"}
  /\ isMountedRef
  /\ ~loggedOut

\* C11: after every attempt of the scheduled update, whether it refreshed the token,
\* found it still valid or failed, the refresh timeout is pending again.
C11_TimerRearmedAfterEveryAttempt ==
  AttemptSettled => updateTokenTimeoutRef


\* C12: when the provider rejects a consumer's updateToken, the call throws to its
\* caller and the step changes neither the lifecycle state nor the singleton nor the
\* hook's instance, and notifies no subscriber.
C12_RefreshFailureOnlySurfaced ==
  [][kcLastOp' = "updateTokenFailed" =>
       /\ returned' = "threw"
       /\ initializationState' = initializationState
       /\ keycloakSingleton' = keycloakSingleton
       /\ keycloak' = keycloak
       /\ notices' = <<>>]_vars

C12_Witness ==
  /\ kcLastOp = "updateTokenFailed"
  /\ returned = "threw"
  /\ initializationState = "initialized"
  /\ keycloakSingleton # 0

\* C13: after a refresh that failed because the session is no longer valid, the
\* lifecycle state is 'failed' and the subscribers were sent the error notification.
C13_InvalidSessionFailsLifecycle ==
  kcLastOp \in {"updateTokenInvalid", "tokenUpdateInvalid"} =>
    /\ initializationState = "failed"
    /\ "ERROR" \in Range(notices)

\* C14: updateToken(minValidity) called while the credential has at least minValidity
\* left asks the provider for nothing, writes no credential, notifies nobody and
\* returns false.
C14_ValidTokenIsLeftAlone ==
  kcLastOp = "updateTokenValid" =>
    /\ returned = "false"
    /\ effects = {}
    /\ notices = <<>>

C14_Witness ==
  /\ kcLastOp = "updateTokenValid"
  /\ returned = "false"
  /\ kcAuthenticated
  /\ isMountedRef


\* C15: a refresh that a request's 401 started and that produced a credential sends that
\* request a second time, with the refreshed credential in its Authorization header; no
\* request is handed to the network more than twice.
C15_RetriedOnceWithRefreshedCredential ==
  /\ \A r \in ReqIds : reqSends[r] <= 2
  /\ apiLastOp = "refreshed" =>
       /\ reqPc[lastReq] = "retrying"
       /\ reqSends[lastReq] = 2
       /\ token # 0
       /\ reqHdr[lastReq] = Bearer(token)

C15_Witness ==
  /\ apiLastOp = "refreshed"
  /\ reqRetry[lastReq]
  /\ reqHdr[lastReq] = Bearer(2)

C17_Non401OnlyRejected ==
  [][lastStatus' \notin {401, -1} =>
       /\ refreshCalls' = refreshCalls
       /\ reqSends' = reqSends
       /\ logoutCalls' = logoutCalls]_vars

\* C18: a request leaves without Authorization header when it is marked noToken or no
\* credential is held, and with 'Bearer <credential>' otherwise; a 401 on a noToken
\* request starts no refresh, no retry and no logout, the request is rejected.
C18_NoTokenExemptOthersCarryBearer ==
  [][/\ apiLastOp' = "send" =>
          /\ reqPc'[lastReq'] = "inflight"
          /\ reqHdr'[lastReq'] = IF reqNoToken'[lastReq'] \/ token = 0
                                 THEN NoHeader ELSE Bearer(token)
     /\ (lastStatus' = 401 /\ reqNoToken[lastReq']) =>
          /\ reqPc'[lastReq'] = "rejected"
          /\ refreshCalls' = refreshCalls
          /\ reqSends' = reqSends
          /\ logoutCalls' = logoutCalls]_vars

C18_Witness ==
  /\ lastStatus = 401
  /\ reqNoToken[lastReq]
  /\ reqHdr[lastReq] = NoHeader
  /\ tokenGetter = "full"
  /\ token # 0
  /\ \E q \in ReqIds : reqHdr[q] = Bearer(token)


\* C19: a ping is answered with a pong and no registered handler is called for it,
\* not even one registered under "ping".
C19_PingAnsweredNeverDispatched ==
  rxType = "ping" => (ponged /\ invoked = <<>>)

\* C20: for a message of any type but ping, every handler registered under that type
\* was called, in registration order, whether or not one of them threw.
C20_EveryHandlerInvokedInOrder ==
  rxType \notin {"none", "ping"} => invoked = listenersOf(eventListeners, rxType)


\* C21: the listener registry never maps an event type to an empty handler list; the
\* call that unregisters the last handler of a type leaves no entry for the type.
C21_NoEmptyRegistryEntry ==
  /\ \A type \in DOMAIN eventListeners : Len(eventListeners[type]) > 0
  /\ DOMAIN eventListeners \subseteq EventTypes

C21_Witness ==
  /\ regOp = <<"removed", "update">>
  /\ DOMAIN eventListeners = {"ping"}


C23_AuthMessageFirst ==
  (lastOp = "onopen" /\ authMethod = "message") =>
    /\ lastSent # <<>>
    /\ lastSent[1] = AuthMessage
    /\ Cardinality({i \in DOMAIN lastSent : lastSent[i] = AuthMessage}) = 1


\* C24: connect() called while the channel requires authentication and the session is
\* not authenticated creates no transport and changes neither the connection state
\* nor the queue nor the reconnect counter.
C24_ConnectRefusedWhenUnauthenticated ==
  [][(lastOp' = "connect" /\ EnableAuth /\ ~authenticated) =>
       UNCHANGED <<cur, stale, isConnectingRef, connecting, connected, wsError,
                   messageQueue, reconnectAttempts, reconnectTimer, wire>>]_vars

C24_Witness ==
  /\ lastOp = "connect"
  /\ ~authenticated
  /\ cur = NoSock
  /\ ~isConnectingRef
  /\ messageQueue # <<>>


InProgress == {i \in InstIds : handshake[i] = "pending"}

\* C29: at most one identity-provider handshake is in progress.
C29_AtMostOneHandshake ==
  Cardinality(InProgress) <= 1


\* C30: every assignment to the lifecycle state either keeps its value or makes one
\* of the five allowed changes: idle to initializing, initializing to initialized,
\* initializing to failed, failed to idle, initialized to idle.
C30_OnlyAllowedLifecycleChanges ==
  [][LET path == <<initializationState>> \o trail'
         allowed == { <<"idle", "initializing">>, <<"initializing", "initialized">>,
                      <<"initializing", "failed">>, <<"failed", "idle">>,
                      <<"initialized", "idle">> }
     IN \A n \in 1..(Len(path) - 1) :
          path[n] = path[n + 1] \/ <<path[n], path[n + 1]>> \in allowed]_vars

\* the handshakes that have been started
HandshakesStarted == {i \in InstIds : handshake[i] # "none"}

\* C26: the step in which a handshake fails leaves the lifecycle state failed and the
\* error stored, sends the ERROR notification (the subscribed hook shows the error)
\* and starts no handshake; a handshake is only ever started by a step that calls
\* initKeycloak().
C26_FailureStoredAnnouncedNotRetried ==
  [][/\ kcLastOp' = "initRejected" =>
          /\ initializationState' = "failed"
          /\ globalError'
          /\ "ERROR" \in Range(notices')
          /\ (stateSubscribers /\ isMountedRef) => error' = "init"
          /\ HandshakesStarted' = HandshakesStarted
     /\ HandshakesStarted' # HandshakesStarted =>
          kcLastOp' \in {"mount", "mountEffect", "initKeycloak"}]_vars

\* a handshake has just failed and the subscribed hook shows the error
C26_Witness ==
  /\ kcLastOp = "initRejected"
  /\ initializationState = "failed"
  /\ globalError
  /\ called > 0
  /\ error = "init"

\* the initKeycloak() calls made so far
CallsIssued == {c \in CallIds : calls[c].pc # "none"}

\* C27: a call of initKeycloak() in lifecycle state initialized starts no handshake,
\* sends no notification, leaves the lifecycle state, the stored session and the stored
\* promise as they were, and has returned the stored session when the step ends.
C27_InitializedCallIsNoOp ==
  [][(kcLastOp' = "initKeycloak" /\ initializationState = "initialized") =>
       /\ HandshakesStarted' = HandshakesStarted
       /\ notices' = <<>> /\ called' = 0
       /\ trail' = <<>> /\ initializationState' = "initialized"
       /\ keycloakSingleton' = keycloakSingleton
       /\ keycloakInitPromise' = keycloakInitPromise
       /\ \A c \in CallsIssued' \ CallsIssued :
            /\ calls'[c].pc = "done"
            /\ calls'[c].res = [kind |-> "instance", inst |-> keycloakSingleton]]_vars

\* initKeycloak() has just been called on an initialized session and returned it
C27_Witness ==
  /\ kcLastOp = "initKeycloak"
  /\ initializationState = "initialized"
  /\ keycloakSingleton # 0
  /\ \E c \in CallIds : c > 1 /\ calls[c].pc = "done" /\ calls[c].p = keycloakSingleton
                        /\ calls[c].res.kind = "instance" /\ ~calls[c].early

\* the hook holds an authenticated session
SessionAuthenticated == kcAuthenticated /\ keycloak # 0 /\ instAuthenticated[keycloak]

\* realm roles and client roles of the session the hook holds
SessionRoles == instRoles[keycloak].realm \cup instRoles[keycloak].client

\* C28: on an authenticated session with the super role hasRole(r) is true for every
\* role r; on an authenticated session without it hasRole(r) is true exactly for the
\* roles in the union of the realm roles and the client roles.
C28_SuperRoleOrMembership ==
  SessionAuthenticated =>
    \A r \in Roles :
      hasRole(KcState, r) = IF SuperRole \in SessionRoles THEN TRUE ELSE r \in SessionRoles

\* an authenticated session without the super role holds a role as client role only
C28_Witness ==
  /\ SessionAuthenticated
  /\ SuperRole \notin SessionRoles
  /\ "editor" \in instRoles[keycloak].client \ instRoles[keycloak].realm
  /\ hasRole(KcState, "editor")
  /\ hasRole(KcState, "viewer")
  /\ ~hasRole(KcState, "tsadmin")

\* the reconnect timers outstanding: the timeout onclose armed and the timeouts of
\* reconnect()
NumReconnectTimers == (IF reconnectTimer THEN 1 ELSE 0) + NumConnectTimers

\* C31: at most one reconnect timer is outstanding.
C31_AtMostOneReconnectTimer ==
  NumReconnectTimers <= 1

\* the refresh timeouts outstanding: the one updateTokenTimeoutRef holds and the ones
\* it no longer holds
NumRefreshTimers == (IF updateTokenTimeoutRef THEN 1 ELSE 0) + orphanTimers

\* C32: at most one token-refresh timer is armed.
C32_AtMostOneRefreshTimer ==
  NumRefreshTimers <= 1

\* C33: once the consumer is unmounted no reconnect timeout and no auto-connect
\* timeout of it is pending, socketRef holds no transport and no transport of it is
\* connecting or open.
C33_NothingLeftAfterTeardown ==
  wsUnmounted =>
    /\ ~reconnectTimer
    /\ ~autoTimer
    /\ NumConnectTimers = 0
    /\ cur = NoSock
    /\ NumLive = 0

\* C34: the error event handler leaves the connecting and connected flags, the
\* transport handle, the queue, the reconnect counter and the reconnect timer as they
\* were, and calls close() on no transport.
C34_ErrorOnlySetsErrorField ==
  [][lastOp' = "onerror" =>
       /\ connecting' = connecting
       /\ isConnectingRef' = isConnectingRef
       /\ connected' = connected
       /\ (cur' = NoSock) = (cur = NoSock)
       /\ cur'.ucl = cur.ucl
       /\ messageQueue' = messageQueue
       /\ reconnectAttempts' = reconnectAttempts
       /\ reconnectTimer' = reconnectTimer]_vars

\* C35: the interceptor calls logout only in a step in which the refresh threw,
\* reported nothing refreshed or yielded no credential, or in which a 401 arrived and
\* no refresh could be started; not when the retried request fails.
C35_LogoutOnlyWhenRefreshFailed ==
  [][logoutCalls' # logoutCalls =>
       apiLastOp' \in {"refreshFailed", "refreshedNoToken", "unrefreshable"}]_vars

\* the step delivers a close or error event of a transport socketRef no longer
\* holds while socketRef holds a transport that is connecting or open
SupersededEvent ==
  /\ lastOp' \in {"onclose", "onerror"}
  /\ stale' # stale
  /\ cur.rs \in {"CONNECTING", "OPEN"}

\* C36: a close or error event of a superseded transport leaves the connected and
\* connecting flags of the current transport as they were and arms no reconnect timer.
C36_SupersededEventsChangeNothing ==
  [][SupersededEvent =>
       /\ connected' = connected
       /\ connecting' = connecting
       /\ isConnectingRef' = isConnectingRef
       /\ reconnectTimer' = reconnectTimer
       /\ reconnectAttempts' = reconnectAttempts]_vars

\* C37: when a scheduled update settles after logout() ran, and no handshake has
\* resolved since, the step arms no refresh timeout and sends no TOKEN_UPDATED.
C37_NoRefreshTimerAfterLogout ==
  [][(loggedOut /\ kcLastOp' \in {"tokenUpdate", "tokenUpdateFailed", "tokenUpdateInvalid"}) =>
       /\ ~updateTokenTimeoutRef'
       /\ orphanTimers' <= orphanTimers
       /\ "TOKEN_UPDATED" \notin Range(notices')]_vars

\* the requests whose 401 handler awaits the refresh or the retry
HandlersRunning == {r \in ReqIds : reqPc[r] \in {"refreshing", "retrying"}}

\* C38: the refresh-in-flight flag is set exactly while a 401 handler awaits its
\* refresh or its retry; when a handler has finished, on whichever path, it is false.
C38_FlagNeverStuck ==
  /\ isRefreshingToken = (HandlersRunning # {})
  /\ apiLastOp \in {"retryOk", "retryFailed", "refreshFailed", "refreshedNoToken"} =>
       ~isRefreshingToken

\* a refresh that threw or reported nothing has finished and the 401 of a later
\* request has started a new one
C38_Witness ==
  /\ apiLastOp = "refreshStarted"
  /\ lastStatus = 401
  /\ refreshCalls = 2
  /\ refreshSettled = 1
  /\ isRefreshingToken

\* C39: while the session is not authenticated no transport is connecting or open
\* and no reconnect timeout is pending.
C39_NoConnectionWhileUnauthenticated ==
  ~authenticated => (NumLive = 0 /\ ~reconnectTimer)

\* C40: a second call of a function returned by addEventListener changes nothing in
\* the registry.
C40_SecondUnregisterChangesNothing ==
  [][regOp'[1] = "unregisterAgain" => eventListeners' = eventListeners]_vars

=============================================================================
